---- MODULE Spec2Model ----
(***************************************************************************)
(* A model of two watermill adapters:                                      *)
(*   - the Google Cloud Pub/Sub Subscriber                                 *)
(*       (message/infrastructure/googlecloud/subscriber.go)                *)
(*   - the NATS StreamingPublisher                                         *)
(*       (message/infrastructure/nats/publisher.go)                        *)
(* Every goroutine of the subscriber is a process of the model: the        *)
(* callers of Subscribe, the callers of Close, and per successful          *)
(* Subscribe the goroutine running receive, the goroutine waiting for the  *)
(* closing signal, and one callback invocation per native message.         *)
(* A Go panic that nothing in the package recovers ends the program: the   *)
(* model records it in `panicked` and takes no further step.               *)
(***************************************************************************)
EXTENDS Integers, Sequences, FiniteSets, TLC

\* ------------------------------------------------------------- bounds
NumCallers == 2     \* goroutines that call Subscribe (one call each)
NumClosers == 2     \* goroutines that call Close (one call each)
NumMessages == 2    \* native messages the broker delivers
NumTopics == 1      \* topic names the callers choose from
MaxBatch == 3       \* messages of one Publish call

Callers == 1..NumCallers
Closers == 1..NumClosers
Messages == 1..NumMessages
Topics == 1..NumTopics

NoOne == 0          \* no goroutine / no handle / no topic

VARIABLES
    \* --- Subscriber fields (subscriber.go:20-33)
    config,                     \* s.config: the two DoNotCreate... flags
    closed,                     \* s.closed
    closing,                    \* s.closing: "open" or "closed"
    allSubscriptionsWaitGroup,  \* counter of s.allSubscriptionsWaitGroup
    activeSubscriptions,        \* s.activeSubscriptions: name -> handle or NoOne
    activeSubscriptionsLock,    \* the goroutine holding the write lock, or NoOne
    clientCloseCalls,           \* number of s.client.Close() calls made
    \* --- the broker behind s.client
    brokerTopics,               \* topics that exist at the broker
    brokerSubscriptions,        \* name -> topic it is bound to, or NoOne
    createTopicCalls,           \* topic -> number of CreateTopic invocations
    createSubscriptionCalls,    \* name -> number of CreateSubscription invocations
    \* --- one Subscribe call per caller
    subPc,                      \* position of the call
    subTopic,                   \* its topic argument
    subHandle,                  \* the handle `sub` it holds
    subResult,                  \* what it returned
    beforeClose,                \* it returned a channel before any Close call began
    overlapped,                 \* two Subscribe calls were in progress at the same time
    \* --- per successful Subscribe: output channel, ctx, the two goroutines
    output,                     \* "none", "open" or "closed"
    outputLog,                  \* messages sent on the output channel, in order
    ctxCancelled,               \* cancel() was called
    recv,                       \* sub.Receive: "none", "running", "draining", "finished"
    recvErr,                    \* the error sub.Receive ends with: "nil" or "err"
    loopErr,                    \* what receive returned to its goroutine
    closerG,                    \* the goroutine of lines 130-138
    \* --- per native message: the callback invocation and the consumer
    msgOwner,                   \* the Subscribe call whose loop got it, or NoOne
    cb,                         \* position of the callback
    consumer,                   \* the consumer's message: "none","pending","acked","nacked"
    brokerAcks,                 \* pubsubMsg.Ack() calls
    brokerNacks,                \* pubsubMsg.Nack() calls
    nackCause,                  \* which line sent the Nack
    placedBeforeClose,          \* it was on the output channel before any Close call began
    \* --- one Close call per closer
    closePc,
    closeResult,
    \* --- the program
    panicked,                   \* "" or the reason of the panic
    \* --- StreamingPublisher.Publish (publisher.go:68-88)
    pubPc,
    pubTopic,                   \* the topic argument
    pubMessages,                \* the messages argument
    pubIdx,                     \* loop position
    pubMarshalled,              \* positions handed to Marshal, in order
    pubSubmitted,               \* what was handed to conn.Publish, in order
    pubConfirmed,               \* what the broker confirmed, in order
    pubResult

subscriberVars ==
    <<config, closed, closing, allSubscriptionsWaitGroup, activeSubscriptions,
      activeSubscriptionsLock, clientCloseCalls, brokerTopics, brokerSubscriptions,
      createTopicCalls, createSubscriptionCalls, subPc, subTopic, subHandle,
      subResult, beforeClose, overlapped, output, outputLog, ctxCancelled, recv, recvErr,
      loopErr, closerG, msgOwner, cb, consumer, brokerAcks, brokerNacks, nackCause,
      placedBeforeClose, closePc, closeResult, panicked>>

publisherVars ==
    <<pubPc, pubTopic, pubMessages, pubIdx, pubMarshalled, pubSubmitted, pubConfirmed, pubResult>>

vars == <<subscriberVars, publisherVars>>

\* ------------------------------------------------------------ errors
\* An error value is its text and the text of the error it wraps ("" if none).
Nil == [text |-> "", cause |-> ""]

\* errors.New
New(text) == [text |-> text, cause |-> ""]

\* errors.Wrap / errors.Wrapf: a new error that keeps its cause
Wrap(err, text) == [text |-> text, cause |-> err.text]

ErrSubscriberClosed == New("subscriber is closed")
ErrSubscriptionDoesNotExist == New("subscription does not exist")
ErrTopicDoesNotExist == New("topic does not exist")

\* an error the broker client reports (the pubsub or stan library's own)
BrokerError == New("broker error")

\* what a Subscribe call returns: (output, nil) or (nil, err)
Returned(channel, err) == [channel |-> channel, err |-> err]

\* ------------------------------------------------------------ helpers
Running == panicked = ""

\* DefaultSubscriptionName: the subscription is named after the topic
DefaultSubscriptionName(topic) == topic

SubscriptionName(p) == DefaultSubscriptionName(subTopic[p])

\* a Close call has begun (it has read s.closed)
CloseCalled == \E c \in Closers : closePc[c] # "idle"

\* ------------------------------------------------------------ Init
InitSubscriber ==
    /\ config \in [DoNotCreateSubscriptionIfMissing : BOOLEAN,
                   DoNotCreateTopicIfMissing : BOOLEAN]
    /\ closed = FALSE
    /\ closing = "open"
    /\ allSubscriptionsWaitGroup = 0
    /\ activeSubscriptions = [n \in Topics |-> NoOne]
    /\ activeSubscriptionsLock = NoOne
    /\ clientCloseCalls = 0
    /\ brokerTopics \in SUBSET Topics
    /\ brokerSubscriptions \in [Topics -> {NoOne} \cup Topics]
    /\ \A n \in Topics : brokerSubscriptions[n] \in {NoOne, n}
    /\ \A n \in Topics : brokerSubscriptions[n] # NoOne => brokerSubscriptions[n] \in brokerTopics
    /\ createTopicCalls = [t \in Topics |-> 0]
    /\ createSubscriptionCalls = [n \in Topics |-> 0]
    /\ subPc = [p \in Callers |-> "idle"]
    /\ subTopic = [p \in Callers |-> NoOne]
    /\ subHandle = [p \in Callers |-> NoOne]
    /\ subResult = [p \in Callers |-> Returned(FALSE, Nil)]
    /\ beforeClose = [p \in Callers |-> FALSE]
    /\ overlapped = FALSE
    /\ output = [p \in Callers |-> "none"]
    /\ outputLog = [p \in Callers |-> <<>>]
    /\ ctxCancelled = [p \in Callers |-> FALSE]
    /\ recv = [p \in Callers |-> "none"]
    /\ recvErr = [p \in Callers |-> "nil"]
    /\ loopErr = [p \in Callers |-> "none"]
    /\ closerG = [p \in Callers |-> "none"]
    /\ msgOwner = [m \in Messages |-> NoOne]
    /\ cb = [m \in Messages |-> "none"]
    /\ consumer = [m \in Messages |-> "none"]
    /\ brokerAcks = [m \in Messages |-> 0]
    /\ brokerNacks = [m \in Messages |-> 0]
    /\ nackCause = [m \in Messages |-> "none"]
    /\ placedBeforeClose = [m \in Messages |-> FALSE]
    /\ closePc = [c \in Closers |-> "idle"]
    /\ closeResult = [c \in Closers |-> Nil]
    /\ panicked = ""

InitPublisher ==
    /\ pubPc = "idle"
    /\ pubTopic = NoOne
    /\ pubMessages = <<>>
    /\ pubIdx = 0
    /\ pubMarshalled = <<>>
    /\ pubSubmitted = <<>>
    /\ pubConfirmed = <<>>
    /\ pubResult = Nil

Init == InitSubscriber /\ InitPublisher

\* ------------------------------------------------------ variable groups
shutdownVars == <<closed, closing, allSubscriptionsWaitGroup, clientCloseCalls>>
registryVars == <<activeSubscriptions, activeSubscriptionsLock>>
brokerVars == <<brokerTopics, brokerSubscriptions, createTopicCalls, createSubscriptionCalls>>
callVars == <<subPc, subTopic, subHandle, subResult, beforeClose, overlapped>>
loopVars == <<output, outputLog, ctxCancelled, recv, recvErr, loopErr, closerG>>
msgVars == <<msgOwner, cb, consumer, brokerAcks, brokerNacks, nackCause, placedBeforeClose>>
closeVars == <<closePc, closeResult>>

\* ------------------------------------------------------------ Subscribe
\* a Subscribe without the closed check
ClosedNotChecked == FALSE

\* line 98: if s.closed
SubscriberIsClosed == closed

\* a Subscribe call that has begun and not returned
InProgress(p) == subPc[p] \notin {"idle", "done", "panicked"}

\* lines 97-112: the closed check, the derived context, the output channel
SubscribeEnter(p, topic) ==
    /\ Running
    /\ subPc[p] = "idle"
    /\ \A q \in Callers : q < p => subPc[q] # "idle"
    /\ IF SubscriberIsClosed
       THEN /\ subPc' = [subPc EXCEPT ![p] = "done"]
            /\ subResult' = [subResult EXCEPT ![p] = Returned(FALSE, ErrSubscriberClosed)]
            /\ UNCHANGED <<subTopic, output, overlapped>>
       ELSE /\ subPc' = [subPc EXCEPT ![p] = "fast"]
            /\ overlapped' = (overlapped \/ \E q \in Callers : InProgress(q))
            /\ subTopic' = [subTopic EXCEPT ![p] = topic]
            /\ output' = [output EXCEPT ![p] = "open"]
            /\ UNCHANGED subResult
    /\ UNCHANGED <<config, shutdownVars, registryVars, brokerVars, subHandle, beforeClose,
                   outputLog, ctxCancelled, recv, recvErr, loopErr, closerG, msgVars,
                   closeVars, panicked,
                   publisherVars>>

\* a registry whose lock excludes nobody
LockIgnored == TRUE

\* RLock / Lock block while another goroutine holds the write lock
LockAvailable == activeSubscriptionsLock = NoOne

\* lines 208-213: the read-locked lookup
SubscriptionFastPath(p) ==
    /\ Running
    /\ subPc[p] = "fast"
    /\ LockAvailable
    /\ IF activeSubscriptions[SubscriptionName(p)] # NoOne
       THEN /\ subHandle' = [subHandle EXCEPT ![p] = activeSubscriptions[SubscriptionName(p)]]
            /\ subPc' = [subPc EXCEPT ![p] = "spawn"]
       ELSE /\ subPc' = [subPc EXCEPT ![p] = "lock"]
            /\ UNCHANGED subHandle
    /\ UNCHANGED <<config, shutdownVars, registryVars, brokerVars, subTopic, subResult,
                   beforeClose, overlapped, loopVars, msgVars, closeVars, panicked,
                   publisherVars>>

\* lines 215, 223: the write lock, then a fresh handle from s.client.Subscription
\* (the handle made by caller p is named p)
SubscriptionLock(p) ==
    /\ Running
    /\ subPc[p] = "lock"
    /\ LockAvailable
    /\ activeSubscriptionsLock' = p
    /\ subHandle' = [subHandle EXCEPT ![p] = p]
    /\ subPc' = [subPc EXCEPT ![p] = "subExists"]
    /\ UNCHANGED <<config, shutdownVars, activeSubscriptions, brokerVars, subTopic,
                   subResult, beforeClose, overlapped, loopVars, msgVars, closeVars, panicked,
                   publisherVars>>

\* a deferred function that caches sub whatever err is
DeferredCacheAlways(p, err) ==
    [activeSubscriptions EXCEPT ![SubscriptionName(p)] = subHandle[p]]

\* a subscription function without the deferred caching
DeferredCacheNever(p, err) == activeSubscriptions

\* lines 217-221: the deferred function caches sub when err is nil
DeferredCache(p, err) ==
    IF err = Nil
    THEN [activeSubscriptions EXCEPT ![SubscriptionName(p)] = subHandle[p]]
    ELSE activeSubscriptions

\* a return of subscription (its two deferred functions run) and what Subscribe
\* does with it, lines 114-118: on an error Subscribe returns (nil, err)
SubscriptionReturn(p, err) ==
    /\ activeSubscriptions' = DeferredCache(p, err)
    /\ activeSubscriptionsLock' = NoOne
    /\ IF err = Nil
       THEN /\ subPc' = [subPc EXCEPT ![p] = "spawn"]
            /\ UNCHANGED <<subHandle, subResult>>
       ELSE /\ subPc' = [subPc EXCEPT ![p] = "done"]
            /\ subHandle' = [subHandle EXCEPT ![p] = NoOne]
            /\ subResult' = [subResult EXCEPT ![p] = Returned(FALSE, err)]

\* lines 224-235: sub.Exists and the DoNotCreateSubscriptionIfMissing policy
SubscriptionExists(p) ==
    /\ Running
    /\ subPc[p] = "subExists"
    /\ \E callOk \in BOOLEAN :
          IF ~callOk
          THEN SubscriptionReturn(p, Wrap(BrokerError, "could not check if subscription exists"))
          ELSE IF brokerSubscriptions[SubscriptionName(p)] # NoOne
          THEN SubscriptionReturn(p, Nil)
          ELSE IF config.DoNotCreateSubscriptionIfMissing
          THEN SubscriptionReturn(p, Wrap(ErrSubscriptionDoesNotExist, "subscription name"))
          ELSE /\ subPc' = [subPc EXCEPT ![p] = "topicExists"]
               /\ UNCHANGED <<registryVars, subHandle, subResult>>
    /\ UNCHANGED <<config, shutdownVars, brokerVars, subTopic, beforeClose, overlapped, loopVars,
                   msgVars, closeVars, panicked,
                   publisherVars>>

\* lines 237-245: t.Exists and the DoNotCreateTopicIfMissing policy
TopicExists(p) ==
    /\ Running
    /\ subPc[p] = "topicExists"
    /\ \E callOk \in BOOLEAN :
          IF ~callOk
          THEN SubscriptionReturn(p, Wrap(BrokerError, "could not check if topic exists"))
          ELSE IF subTopic[p] \notin brokerTopics /\ config.DoNotCreateTopicIfMissing
          THEN SubscriptionReturn(p, Wrap(ErrTopicDoesNotExist, "topic name"))
          ELSE /\ subPc' = [subPc EXCEPT ![p] =
                      IF subTopic[p] \in brokerTopics THEN "createSub" ELSE "createTopic"]
               /\ UNCHANGED <<registryVars, subHandle, subResult>>
    /\ UNCHANGED <<config, shutdownVars, brokerVars, subTopic, beforeClose, overlapped, loopVars,
                   msgVars, closeVars, panicked,
                   publisherVars>>

\* lines 247-252: s.client.CreateTopic; the broker refuses a topic that exists
CreateTopic(p) ==
    /\ Running
    /\ subPc[p] = "createTopic"
    /\ createTopicCalls' = [createTopicCalls EXCEPT ![subTopic[p]] = @ + 1]
    /\ \E callOk \in BOOLEAN :
          IF callOk /\ subTopic[p] \notin brokerTopics
          THEN /\ brokerTopics' = brokerTopics \cup {subTopic[p]}
               /\ subPc' = [subPc EXCEPT ![p] = "createSub"]
               /\ UNCHANGED <<registryVars, subHandle, subResult>>
          ELSE /\ SubscriptionReturn(p, Wrap(BrokerError, "could not create topic for subscription"))
               /\ UNCHANGED brokerTopics
    /\ UNCHANGED <<config, shutdownVars, brokerSubscriptions, createSubscriptionCalls,
                   subTopic, beforeClose, overlapped, loopVars, msgVars, closeVars, panicked,
                   publisherVars>>

\* lines 254-259: s.client.CreateSubscription, bound to the topic. On an error
\* the client returns a nil subscription, and line 257 assigns to a field of it
\* before err is looked at: a nil pointer dereference.
CreateSubscription(p) ==
    /\ Running
    /\ subPc[p] = "createSub"
    /\ createSubscriptionCalls' = [createSubscriptionCalls EXCEPT ![SubscriptionName(p)] = @ + 1]
    /\ \E callOk \in BOOLEAN :
          IF callOk /\ brokerSubscriptions[SubscriptionName(p)] = NoOne
          THEN /\ brokerSubscriptions' =
                      [brokerSubscriptions EXCEPT ![SubscriptionName(p)] = subTopic[p]]
               /\ SubscriptionReturn(p, Nil)
               /\ UNCHANGED panicked
          ELSE /\ panicked' = "nil pointer dereference"
               /\ subPc' = [subPc EXCEPT ![p] = "panicked"]
               /\ UNCHANGED <<brokerSubscriptions, registryVars, subHandle, subResult>>
    /\ UNCHANGED <<config, shutdownVars, brokerTopics, createTopicCalls, subTopic,
                   beforeClose, overlapped, loopVars, msgVars, closeVars,
                   publisherVars>>

\* lines 120-140: count the loop in the wait group, start the two goroutines,
\* return the output channel
SubscribeSpawn(p) ==
    /\ Running
    /\ subPc[p] = "spawn"
    /\ allSubscriptionsWaitGroup' = allSubscriptionsWaitGroup + 1
    /\ recv' = [recv EXCEPT ![p] = "running"]
    /\ closerG' = [closerG EXCEPT ![p] = "waitClosing"]
    /\ subResult' = [subResult EXCEPT ![p] = Returned(TRUE, Nil)]
    /\ beforeClose' = [beforeClose EXCEPT ![p] = ~CloseCalled]
    /\ subPc' = [subPc EXCEPT ![p] = "done"]
    /\ UNCHANGED <<config, closed, closing, clientCloseCalls, registryVars, brokerVars,
                   subTopic, subHandle, overlapped, output, outputLog, ctxCancelled, recvErr,
                   loopErr, msgVars, closeVars, panicked,
                   publisherVars>>

Subscribe(p) ==
    \/ \E topic \in Topics : SubscribeEnter(p, topic)
    \/ SubscriptionFastPath(p)
    \/ SubscriptionLock(p)
    \/ SubscriptionExists(p)
    \/ TopicExists(p)
    \/ CreateTopic(p)
    \/ CreateSubscription(p)
    \/ SubscribeSpawn(p)

\* ------------------------------------------------------------ receive
\* the callbacks sub.Receive has started for p and that have not returned
ActiveCallbacks(p) == {m \in Messages : msgOwner[m] = p /\ cb[m] # "done"}

\* a callback that returns without a Nack when the message does not unmarshal
DeliverDropsUnreadable(p, m) ==
    /\ Running
    /\ recv[p] = "running"
    /\ msgOwner[m] = NoOne
    /\ \A k \in Messages : k < m => msgOwner[k] # NoOne
    /\ msgOwner' = [msgOwner EXCEPT ![m] = p]
    /\ \E unmarshalOk \in BOOLEAN :
          IF unmarshalOk
          THEN /\ cb' = [cb EXCEPT ![m] = "handOff"]
               /\ UNCHANGED <<brokerNacks, nackCause>>
          ELSE /\ cb' = [cb EXCEPT ![m] = "done"]
               /\ nackCause' = [nackCause EXCEPT ![m] = "unmarshal"]
               /\ UNCHANGED brokerNacks
    /\ UNCHANGED <<config, shutdownVars, registryVars, brokerVars, callVars, loopVars,
                   consumer, brokerAcks, placedBeforeClose, closeVars, panicked,
                   publisherVars>>

\* lines 167-173: sub.Receive hands the next native message to the callback,
\* which unmarshals it; a message that does not unmarshal is nacked at once.
\* (The broker hands out message m after the messages below m.)
Deliver(p, m) ==
    /\ Running
    /\ recv[p] = "running"
    /\ msgOwner[m] = NoOne
    /\ \A k \in Messages : k < m => msgOwner[k] # NoOne
    /\ msgOwner' = [msgOwner EXCEPT ![m] = p]
    /\ \E unmarshalOk \in BOOLEAN :
          IF unmarshalOk
          THEN /\ cb' = [cb EXCEPT ![m] = "handOff"]
               /\ UNCHANGED <<brokerNacks, nackCause>>
          ELSE /\ cb' = [cb EXCEPT ![m] = "done"]
               /\ brokerNacks' = [brokerNacks EXCEPT ![m] = @ + 1]
               /\ nackCause' = [nackCause EXCEPT ![m] = "unmarshal"]
    /\ UNCHANGED <<config, shutdownVars, registryVars, brokerVars, callVars, loopVars,
                   consumer, brokerAcks, placedBeforeClose, closeVars, panicked,
                   publisherVars>>

\* <-s.closing is ready once the channel is closed
ClosingFired == closing = "closed"

\* a callback that nacks when closing wins the hand-off but does not return
HandOffClosingFallsThrough(m) ==
    /\ Running
    /\ cb[m] = "handOff"
    /\ ClosingFired
    /\ brokerNacks' = [brokerNacks EXCEPT ![m] = @ + 1]
    /\ nackCause' = [nackCause EXCEPT ![m] = "closing before hand-off"]
    /\ cb' = [cb EXCEPT ![m] = "outcome"]
    /\ UNCHANGED <<config, shutdownVars, registryVars, brokerVars, callVars, loopVars,
                   msgOwner, consumer, brokerAcks, placedBeforeClose, closeVars,
                   panicked, publisherVars>>

\* lines 175-182: the closing signal wins the hand-off: Nack and return
HandOffClosing(m) ==
    /\ Running
    /\ cb[m] = "handOff"
    /\ ClosingFired
    /\ brokerNacks' = [brokerNacks EXCEPT ![m] = @ + 1]
    /\ nackCause' = [nackCause EXCEPT ![m] = "closing before hand-off"]
    /\ cb' = [cb EXCEPT ![m] = "done"]
    /\ UNCHANGED <<config, shutdownVars, registryVars, brokerVars, callVars, loopVars,
                   msgOwner, consumer, brokerAcks, placedBeforeClose, closeVars,
                   panicked,
                   publisherVars>>

\* line 183: output <- msg. The channel is unbuffered: the send happens when the
\* consumer receives. A send on a closed channel panics.
HandOffSend(m) ==
    /\ Running
    /\ cb[m] = "handOff"
    /\ IF output[msgOwner[m]] = "closed"
       THEN /\ panicked' = "send on closed channel"
            /\ UNCHANGED <<cb, outputLog, consumer, placedBeforeClose>>
       ELSE /\ outputLog' = [outputLog EXCEPT ![msgOwner[m]] = Append(@, m)]
            /\ consumer' = [consumer EXCEPT ![m] = "pending"]
            /\ placedBeforeClose' = [placedBeforeClose EXCEPT ![m] = ~CloseCalled]
            /\ cb' = [cb EXCEPT ![m] = "outcome"]
            /\ UNCHANGED panicked
    /\ UNCHANGED <<config, shutdownVars, registryVars, brokerVars, callVars, output,
                   ctxCancelled, recv, recvErr, loopErr, closerG, msgOwner, brokerAcks,
                   brokerNacks, nackCause, closeVars,
                   publisherVars>>

\* lines 187-189: closing fires while the outcome is awaited
OutcomeClosing(m) ==
    /\ Running
    /\ cb[m] = "outcome"
    /\ ClosingFired
    /\ brokerNacks' = [brokerNacks EXCEPT ![m] = @ + 1]
    /\ nackCause' = [nackCause EXCEPT ![m] = "closing"]
    /\ cb' = [cb EXCEPT ![m] = "done"]
    /\ UNCHANGED <<config, shutdownVars, registryVars, brokerVars, callVars, loopVars,
                   msgOwner, consumer, brokerAcks, placedBeforeClose, closeVars,
                   panicked,
                   publisherVars>>

\* a callback that relays an Ack the consumer has not given
OutcomeAckedUnasked(m) ==
    /\ Running
    /\ cb[m] = "outcome"
    /\ brokerAcks' = [brokerAcks EXCEPT ![m] = @ + 1]
    /\ cb' = [cb EXCEPT ![m] = "done"]
    /\ UNCHANGED <<config, shutdownVars, registryVars, brokerVars, callVars, loopVars,
                   msgOwner, consumer, brokerNacks, nackCause, placedBeforeClose,
                   closeVars, panicked, publisherVars>>

\* lines 190-191: the consumer acked
OutcomeAcked(m) ==
    /\ Running
    /\ cb[m] = "outcome"
    /\ consumer[m] = "acked"
    /\ brokerAcks' = [brokerAcks EXCEPT ![m] = @ + 1]
    /\ cb' = [cb EXCEPT ![m] = "done"]
    /\ UNCHANGED <<config, shutdownVars, registryVars, brokerVars, callVars, loopVars,
                   msgOwner, consumer, brokerNacks, nackCause, placedBeforeClose,
                   closeVars, panicked,
                   publisherVars>>

\* lines 192-193: the consumer nacked
OutcomeNacked(m) ==
    /\ Running
    /\ cb[m] = "outcome"
    /\ consumer[m] = "nacked"
    /\ brokerNacks' = [brokerNacks EXCEPT ![m] = @ + 1]
    /\ nackCause' = [nackCause EXCEPT ![m] = "consumer"]
    /\ cb' = [cb EXCEPT ![m] = "done"]
    /\ UNCHANGED <<config, shutdownVars, registryVars, brokerVars, callVars, loopVars,
                   msgOwner, consumer, brokerAcks, placedBeforeClose, closeVars,
                   panicked,
                   publisherVars>>

\* the consumer of the output channel: msg.Ack() or msg.Nack(), once
ConsumerDecides(m, decision) ==
    /\ Running
    /\ consumer[m] = "pending"
    /\ consumer' = [consumer EXCEPT ![m] = decision]
    /\ UNCHANGED <<config, shutdownVars, registryVars, brokerVars, callVars, loopVars,
                   msgOwner, cb, brokerAcks, brokerNacks, nackCause, placedBeforeClose,
                   closeVars, panicked,
                   publisherVars>>

\* sub.Receive stops taking messages: its context was cancelled (it will return
\* nil), or the broker or the transport failed (it will return the error)
ReceiveStops(p, err) ==
    /\ Running
    /\ recv[p] = "running"
    /\ err = "nil" => ctxCancelled[p]
    /\ recv' = [recv EXCEPT ![p] = "draining"]
    /\ recvErr' = [recvErr EXCEPT ![p] = err]
    /\ UNCHANGED <<config, shutdownVars, registryVars, brokerVars, callVars, output,
                   outputLog, ctxCancelled, loopErr, closerG, msgVars, closeVars,
                   panicked,
                   publisherVars>>

\* lines 197-202: what receive returns for the error of sub.Receive
ReceiveResult(err) == IF err # "nil" /\ ~closed THEN err ELSE "nil"

\* sub.Receive returns once its callbacks have returned; lines 197-202 and
\* 123-127: receive returns, its goroutine closes receiveFinished
ReceiveReturns(p) ==
    /\ Running
    /\ recv[p] = "draining"
    /\ ActiveCallbacks(p) = {}
    /\ recv' = [recv EXCEPT ![p] = "finished"]
    /\ loopErr' = [loopErr EXCEPT ![p] = ReceiveResult(recvErr[p])]
    /\ UNCHANGED <<config, shutdownVars, registryVars, brokerVars, callVars, output,
                   outputLog, ctxCancelled, recvErr, closerG, msgVars, closeVars,
                   panicked,
                   publisherVars>>

\* a second goroutine that never calls cancel()
CloserForgetsCancel(p) ==
    /\ Running
    /\ closerG[p] = "waitClosing"
    /\ ClosingFired
    /\ closerG' = [closerG EXCEPT ![p] = "waitFinished"]
    /\ UNCHANGED <<config, shutdownVars, registryVars, brokerVars, callVars, output,
                   outputLog, ctxCancelled, recv, recvErr, loopErr, msgVars, closeVars,
                   panicked, publisherVars>>

\* lines 130-133: the second goroutine waits for the closing signal, then
\* cancels the context of the subscription
CloserCancels(p) ==
    /\ Running
    /\ closerG[p] = "waitClosing"
    /\ ClosingFired
    /\ ctxCancelled' = [ctxCancelled EXCEPT ![p] = TRUE]
    /\ closerG' = [closerG EXCEPT ![p] = "waitFinished"]
    /\ UNCHANGED <<config, shutdownVars, registryVars, brokerVars, callVars, output,
                   outputLog, recv, recvErr, loopErr, msgVars, closeVars, panicked,
                   publisherVars>>

\* a goroutine that closes output without waiting for receive
ReceiveNotAwaited(p) == TRUE

\* line 135: <-receiveFinished
ReceiveFinished(p) == recv[p] = "finished"

\* lines 135-137: then it waits for receive, closes output, and calls Done
CloserClosesOutput(p) ==
    /\ Running
    /\ closerG[p] = "waitFinished"
    /\ ReceiveFinished(p)
    /\ output' = [output EXCEPT ![p] = "closed"]
    /\ allSubscriptionsWaitGroup' = allSubscriptionsWaitGroup - 1
    /\ closerG' = [closerG EXCEPT ![p] = "done"]
    /\ UNCHANGED <<config, closed, closing, clientCloseCalls, registryVars, brokerVars,
                   callVars, outputLog, ctxCancelled, recv, recvErr, loopErr, msgVars,
                   closeVars, panicked,
                   publisherVars>>

\* ------------------------------------------------------------ Close
\* a Close without the closed check
CloseNotIdempotent == FALSE

\* line 144: if s.closed
AlreadyClosed == closed

\* lines 144-146: if s.closed { return nil }
CloseEnter(c) ==
    /\ Running
    /\ closePc[c] = "idle"
    /\ \A d \in Closers : d < c => closePc[d] # "idle"
    /\ closePc' = [closePc EXCEPT ![c] = IF AlreadyClosed THEN "returnedEarly" ELSE "setClosed"]
    /\ UNCHANGED <<config, shutdownVars, registryVars, brokerVars, callVars, loopVars,
                   msgVars, closeResult, panicked,
                   publisherVars>>

\* line 148: s.closed = true
CloseSetsClosed(c) ==
    /\ Running
    /\ closePc[c] = "setClosed"
    /\ closed' = TRUE
    /\ closePc' = [closePc EXCEPT ![c] = "signal"]
    /\ UNCHANGED <<config, closing, allSubscriptionsWaitGroup, clientCloseCalls,
                   registryVars, brokerVars, callVars, loopVars, msgVars, closeResult,
                   panicked,
                   publisherVars>>

\* line 149: close(s.closing); closing a closed channel panics
CloseSignals(c) ==
    /\ Running
    /\ closePc[c] = "signal"
    /\ IF closing = "closed"
       THEN /\ panicked' = "close of closed channel"
            /\ UNCHANGED <<closing, closePc>>
       ELSE /\ closing' = "closed"
            /\ closePc' = [closePc EXCEPT ![c] = "wait"]
            /\ UNCHANGED panicked
    /\ UNCHANGED <<config, closed, allSubscriptionsWaitGroup, clientCloseCalls,
                   registryVars, brokerVars, callVars, loopVars, msgVars, closeResult,
                   publisherVars>>

\* a Close that does not wait for the wait group
WaitSkipped == TRUE

\* line 150: Wait returns when the counter is zero
WaitGroupIsZero == allSubscriptionsWaitGroup = 0

CloseWaits(c) ==
    /\ Running
    /\ closePc[c] = "wait"
    /\ WaitGroupIsZero
    /\ closePc' = [closePc EXCEPT ![c] = "client"]
    /\ UNCHANGED <<config, shutdownVars, registryVars, brokerVars, callVars, loopVars,
                   msgVars, closeResult, panicked,
                   publisherVars>>

\* lines 152-158: s.client.Close(), whose error is returned
CloseClosesClient(c) ==
    /\ Running
    /\ closePc[c] = "client"
    /\ clientCloseCalls' = clientCloseCalls + 1
    /\ \E err \in {Nil, BrokerError} :
          closeResult' = [closeResult EXCEPT ![c] = err]
    /\ closePc' = [closePc EXCEPT ![c] = "returned"]
    /\ UNCHANGED <<config, closed, closing, allSubscriptionsWaitGroup, registryVars,
                   brokerVars, callVars, loopVars, msgVars, panicked,
                   publisherVars>>

\* the steps of the subscriber's goroutines, for the given Subscribe callers,
\* Close callers and native messages
NextOf(callers, closers, messages) ==
    \/ \E p \in callers : Subscribe(p)
    \/ \E p \in callers, m \in messages : Deliver(p, m)
    \/ \E m \in messages : HandOffClosing(m)
    \/ \E m \in messages : HandOffSend(m)
    \/ \E m \in messages : OutcomeClosing(m)
    \/ \E m \in messages : OutcomeAcked(m)
    \/ \E m \in messages : OutcomeNacked(m)
    \/ \E m \in messages, d \in {"acked", "nacked"} : ConsumerDecides(m, d)
    \/ \E p \in callers, err \in {"nil", "err"} : ReceiveStops(p, err)
    \/ \E p \in callers : ReceiveReturns(p)
    \/ \E p \in callers : CloserCancels(p)
    \/ \E p \in callers : CloserClosesOutput(p)
    \/ \E c \in closers : CloseEnter(c)
    \/ \E c \in closers : CloseSetsClosed(c)
    \/ \E c \in closers : CloseSignals(c)
    \/ \E c \in closers : CloseWaits(c)
    \/ \E c \in closers : CloseClosesClient(c)


\* a scenario's smallest process
First(S) == {x \in S : \A y \in S : x <= y}

\* every Subscribe caller, one Close call, one native message
Next == NextOf(Callers, First(Closers), First(Messages))

Spec == Init /\ [][Next]_vars

\* one Subscribe call, every Close caller, every native message
NextLoop == NextOf(First(Callers), Closers, Messages)

SpecLoop == Init /\ [][NextLoop]_vars

\* ------------------------------------------------- StreamingPublisher
UUIDs == 1..MaxBatch

\* a message to publish: its UUID, and whether the configured Marshaler accepts it
PublishableMessages == [UUID : UUIDs, marshals : BOOLEAN]

Batches == UNION {[1..n -> PublishableMessages] : n \in 0..MaxBatch}

CodecError == New("cannot marshal message")

\* p.config.Marshaler.Marshal(topic, msg): the stan bytes, or the codec's error
Marshal(topic, msg) ==
    IF msg.marshals
    THEN [bytes |-> <<"stan", msg.UUID>>, err |-> Nil]
    ELSE [bytes |-> <<>>, err |-> CodecError]

\* line 68: a call of Publish(topic, messages...); line 69: an empty range ends
\* the loop at once and line 87 returns nil
PublishCall(topic, messages) ==
    /\ pubPc = "idle"
    /\ pubTopic' = topic
    /\ pubMessages' = messages
    /\ pubIdx' = 1
    /\ pubPc' = IF Len(messages) = 0 THEN "done" ELSE "marshal"
    /\ UNCHANGED <<pubMarshalled, pubSubmitted, pubConfirmed, pubResult, subscriberVars>>

\* a Publish that skips a message its codec rejects instead of returning
PublishMarshalSkips ==
    /\ pubPc = "marshal"
    /\ pubMarshalled' = Append(pubMarshalled, pubIdx)
    /\ IF Marshal(pubTopic, pubMessages[pubIdx]).err # Nil
       THEN /\ pubIdx' = pubIdx + 1
            /\ pubPc' = IF pubIdx = Len(pubMessages) THEN "done" ELSE "marshal"
       ELSE /\ pubPc' = "send"
            /\ UNCHANGED pubIdx
    /\ UNCHANGED <<pubTopic, pubMessages, pubResult, pubSubmitted, pubConfirmed, subscriberVars>>

\* lines 77-80: marshal the message; a codec error is returned as it is
PublishMarshal ==
    /\ pubPc = "marshal"
    /\ pubMarshalled' = Append(pubMarshalled, pubIdx)
    /\ IF Marshal(pubTopic, pubMessages[pubIdx]).err # Nil
       THEN /\ pubResult' = Marshal(pubTopic, pubMessages[pubIdx]).err
            /\ pubPc' = "done"
       ELSE /\ pubPc' = "send"
            /\ UNCHANGED pubResult
    /\ UNCHANGED <<pubTopic, pubMessages, pubIdx, pubSubmitted, pubConfirmed, subscriberVars>>

\* a Publish that drops the error of p.conn.Publish
SendErrorIgnored(err) == Nil

\* lines 82-84: what Publish does with the error of p.conn.Publish
SendError(err) == IF err # Nil THEN Wrap(err, "sending message failed") ELSE Nil

\* lines 82-87: p.conn.Publish blocks until the broker confirms or the transport
\* fails; a failure is returned wrapped; after the last message Publish returns nil
PublishSend ==
    /\ pubPc = "send"
    /\ pubSubmitted' = Append(pubSubmitted,
           [topic |-> pubTopic, bytes |-> Marshal(pubTopic, pubMessages[pubIdx]).bytes])
    /\ \E err \in {Nil, BrokerError} :
          /\ pubConfirmed' = IF err = Nil THEN Append(pubConfirmed, pubIdx) ELSE pubConfirmed
          /\ IF SendError(err) # Nil
             THEN /\ pubResult' = SendError(err)
                  /\ pubPc' = "done"
                  /\ UNCHANGED pubIdx
             ELSE /\ pubIdx' = pubIdx + 1
                  /\ pubPc' = IF pubIdx = Len(pubMessages) THEN "done" ELSE "marshal"
                  /\ UNCHANGED pubResult
    /\ UNCHANGED <<pubTopic, pubMessages, pubMarshalled, subscriberVars>>

NextPublisher ==
    \/ \E topic \in Topics, messages \in Batches : PublishCall(topic, messages)
    \/ PublishMarshal
    \/ PublishSend

\* the publisher alone, beside a subscriber that nobody uses
InitPublisherOnly ==
    /\ Init
    /\ config = [DoNotCreateSubscriptionIfMissing |-> FALSE, DoNotCreateTopicIfMissing |-> FALSE]
    /\ brokerTopics = {}
    /\ \A n \in Topics : brokerSubscriptions[n] = NoOne

SpecPublisher == InitPublisherOnly /\ [][NextPublisher]_vars

\* ====================================================== the claims
\* what conn.Publish is handed for the message at position i of the call
Submission(i) ==
    [topic |-> pubTopic, bytes |-> Marshal(pubTopic, pubMessages[i]).bytes]

\* the positions 1..n in order
Positions(n) == [i \in 1..n |-> i]

PublishReturned == pubPc = "done"

\* a marshal or a transport submission of the call failed
PublishFailure ==
    \/ \E i \in 1..Len(pubMarshalled) : ~pubMessages[pubMarshalled[i]].marshals
    \/ Len(pubSubmitted) # Len(pubConfirmed)

(* C7: when Publish returns nil, every message of the call was marshalled and
   handed to the connection's blocking Publish exactly once, in the bytes its
   Marshal gives, and the broker confirmed each one; and Publish does not
   return nil when a marshal or a transport submission of the call failed. *)
C7_NilMeansAllConfirmed ==
    PublishReturned =>
        /\ pubResult = Nil =>
              /\ pubMarshalled = Positions(Len(pubMessages))
              /\ pubSubmitted = [i \in 1..Len(pubMessages) |-> Submission(i)]
              /\ pubConfirmed = Positions(Len(pubMessages))
        /\ PublishFailure => pubResult # Nil

C7_Witness ==
    /\ PublishReturned
    /\ pubResult = Nil
    /\ Len(pubMessages) = MaxBatch
    /\ Len(pubConfirmed) = MaxBatch

(* C8: within one Publish call the messages go to the transport in input
   order, each after the one before it was confirmed. When Marshal rejects
   message k the call returns the codec's error as it is and exactly messages
   1..k-1 were submitted (and confirmed); when the transport rejects message k
   the call returns that error wrapped, exactly messages 1..k were attempted,
   and nothing after k is marshalled or submitted, nothing twice. *)
C8_OrderedAndStopsAtFailure ==
    /\ pubMarshalled = Positions(Len(pubMarshalled))
    /\ pubSubmitted = [i \in 1..Len(pubSubmitted) |-> Submission(i)]
    /\ pubConfirmed = Positions(Len(pubConfirmed))
    /\ Len(pubConfirmed) <= Len(pubSubmitted)
    /\ Len(pubSubmitted) <= Len(pubMarshalled)
    /\ Len(pubMarshalled) <= Len(pubSubmitted) + 1
    /\ Len(pubSubmitted) > Len(pubConfirmed) =>
          /\ PublishReturned
          /\ Len(pubSubmitted) = Len(pubConfirmed) + 1
          /\ Len(pubMarshalled) = Len(pubSubmitted)
          /\ pubResult = Wrap(BrokerError, "sending message failed")
    /\ (\E i \in 1..Len(pubMarshalled) : ~pubMessages[i].marshals) =>
          /\ PublishReturned
          /\ ~pubMessages[Len(pubMarshalled)].marshals
          /\ \A i \in 1..(Len(pubMarshalled) - 1) : pubMessages[i].marshals
          /\ Len(pubSubmitted) = Len(pubMarshalled) - 1
          /\ Len(pubConfirmed) = Len(pubSubmitted)
          /\ pubResult = CodecError
    /\ (PublishReturned /\ pubResult # Nil) =>
          \/ /\ pubResult = CodecError
             /\ ~pubMessages[Len(pubMarshalled)].marshals
          \/ /\ pubResult = Wrap(BrokerError, "sending message failed")
             /\ pubResult.cause = BrokerError.text
             /\ Len(pubSubmitted) > Len(pubConfirmed)

C8_Witness ==
    /\ PublishReturned
    /\ pubResult = Wrap(BrokerError, "sending message failed")
    /\ Len(pubSubmitted) = 2
    /\ Len(pubConfirmed) = 1
    /\ Len(pubMessages) = MaxBatch

\* a Close call went through the whole shutdown (lines 148-158) and returned
ShutdownReturned == \E c \in Closers : closePc[c] = "returned"

\* message m was sent on an output channel
Placed(m) == msgOwner[m] # NoOne /\ \E i \in 1..Len(outputLog[msgOwner[m]]) : outputLog[msgOwner[m]][i] = m

(* C1: once the Close call that shut the subscriber down has returned, the
   output channel of every Subscribe call that returned before Close was
   called is closed, its receive loop has finished, no callback of that loop
   is left that could still send (so no message is sent on the channel in any
   later state), and there never is a send on a closed channel. *)
C1_ClosedAfterClose ==
    /\ panicked # "send on closed channel"
    /\ ShutdownReturned =>
          \A p \in Callers :
              beforeClose[p] =>
                  /\ output[p] = "closed"
                  /\ recv[p] = "finished"
                  /\ closerG[p] = "done"
                  /\ ActiveCallbacks(p) = {}

C1_Witness ==
    /\ ShutdownReturned
    /\ \A p \in Callers : beforeClose[p] /\ output[p] = "closed"
    /\ \E m \in Messages : Placed(m)

(* C2: each native message handed to the callback gets exactly one confirmation
   by the time the callback has returned, none before, and never two. The Nack
   is for a failed unmarshal or for closing winning the hand-off (the message
   was then never on the output channel), or for closing or the consumer's
   Nack after the hand-off; an Ack goes to the broker only for a message that
   was on the output channel and that the consumer acked. *)
C2_ExactlyOneConfirmation ==
    \A m \in Messages :
        /\ brokerAcks[m] + brokerNacks[m] <= 1
        /\ cb[m] = "done" => brokerAcks[m] + brokerNacks[m] = 1
        /\ cb[m] # "done" => brokerAcks[m] + brokerNacks[m] = 0
        /\ brokerAcks[m] = 1 => Placed(m) /\ consumer[m] = "acked"
        /\ brokerNacks[m] = 1 =>
              \/ nackCause[m] \in {"unmarshal", "closing before hand-off"} /\ ~Placed(m)
              \/ nackCause[m] = "closing" /\ Placed(m) /\ ClosingFired
              \/ nackCause[m] = "consumer" /\ Placed(m) /\ consumer[m] = "nacked"
        /\ brokerNacks[m] = 0 => nackCause[m] = "none"

C2_Witness ==
    \E m, k \in Messages :
        /\ brokerAcks[m] = 1
        /\ brokerNacks[k] = 1
        /\ nackCause[k] = "closing before hand-off"

(* C3: a message that was handed to the output channel before Close was called
   and that the consumer has neither acked nor nacked has been nacked to the
   broker (and not acked) by the time the Close call that shut the subscriber
   down returns. *)
C3_NackOnShutdown ==
    ShutdownReturned =>
        \A m \in Messages :
            (placedBeforeClose[m] /\ consumer[m] = "pending") =>
                /\ brokerNacks[m] = 1
                /\ brokerAcks[m] = 0
                /\ nackCause[m] = "closing"

C3_Witness ==
    /\ ShutdownReturned
    /\ \E m \in Messages :
          /\ placedBeforeClose[m]
          /\ consumer[m] = "pending"
          /\ brokerNacks[m] = 1

(* C4 as claimed: when Subscribe calls for one name ran concurrently,
   CreateSubscription was invoked at most once for the name and CreateTopic at
   most once for its topic. *)
C4_CreatedAtMostOnce ==
    overlapped =>
        /\ \A n \in Topics : createSubscriptionCalls[n] <= 1
        /\ \A t \in Topics : createTopicCalls[t] <= 1

(* C4 amended: under every interleaving of the Subscribe calls,
   CreateSubscription is never invoked for a name whose subscription exists at
   the broker and CreateTopic never for a topic that exists: an operation is
   invoked again only after its earlier invocations failed, and at most one
   invocation of each succeeds. *)
C4_NeverCreatedTwice ==
    [][ /\ \A n \in Topics :
              createSubscriptionCalls'[n] # createSubscriptionCalls[n] =>
                  /\ brokerSubscriptions[n] = NoOne
                  /\ createSubscriptionCalls'[n] = createSubscriptionCalls[n] + 1
        /\ \A t \in Topics :
              createTopicCalls'[t] # createTopicCalls[t] =>
                  /\ t \notin brokerTopics
                  /\ createTopicCalls'[t] = createTopicCalls[t] + 1
      ]_vars

C4_Witness ==
    /\ overlapped
    /\ \E t \in Topics :
          /\ createTopicCalls[t] = 2
          /\ createSubscriptionCalls[DefaultSubscriptionName(t)] = 1
          /\ brokerSubscriptions[DefaultSubscriptionName(t)] = t
    /\ \A p \in Callers : subPc[p] = "done"

(* C5: a Subscribe call that begins when the closed flag is set returns
   ErrSubscriberClosed and no channel, and its step changes neither the
   registry nor its lock, makes no broker call, starts no goroutine and leaves
   the wait group as it is. *)
C5_ClosedSubscriberRefuses ==
    [][ \A p \in Callers :
            (subPc[p] = "idle" /\ closed /\ subPc'[p] # "idle") =>
                /\ subPc'[p] = "done"
                /\ subResult'[p] = Returned(FALSE, ErrSubscriberClosed)
                /\ UNCHANGED <<registryVars, brokerVars, shutdownVars, recv, closerG,
                               ctxCancelled, subHandle, msgVars>>
      ]_vars

C5_Witness ==
    \E p \in Callers :
        /\ subPc[p] = "done"
        /\ subResult[p] = Returned(FALSE, ErrSubscriberClosed)
        /\ recv[p] = "none"

(* C6: a Close call made after another Close call has returned (with nil or
   with the client's error) returns nil in one step that closes nothing, waits
   for nothing and changes no field of the subscriber. *)
C6_SecondCloseIsNoOp ==
    [][ \A c \in Closers :
            ( /\ closePc[c] = "idle"
              /\ \E d \in Closers : closePc[d] = "returned"
              /\ closePc'[c] # "idle" ) =>
                /\ closePc'[c] = "returnedEarly"
                /\ closeResult'[c] = Nil
                /\ panicked' = ""
                /\ UNCHANGED <<shutdownVars, registryVars, brokerVars, callVars, loopVars,
                               msgVars, config>>
      ]_vars

C6_Witness ==
    \E c, d \in Closers :
        /\ closePc[d] = "returned"
        /\ closeResult[d] = BrokerError
        /\ closePc[c] = "returnedEarly"
        /\ closeResult[c] = Nil
        /\ clientCloseCalls = 1
        /\ closing = "closed"
        /\ panicked = ""

\* a Subscribe call whose subscription is missing at the broker while the
\* configuration forbids creating it
SubscriptionForbidden(p) ==
    /\ config.DoNotCreateSubscriptionIfMissing
    /\ brokerSubscriptions[SubscriptionName(p)] = NoOne

\* ... or whose topic is missing too, while only creating the topic is forbidden
TopicForbidden(p) ==
    /\ ~config.DoNotCreateSubscriptionIfMissing
    /\ config.DoNotCreateTopicIfMissing
    /\ brokerSubscriptions[SubscriptionName(p)] = NoOne
    /\ subTopic[p] \notin brokerTopics

\* nothing was created at the broker, nothing cached, no loop started for p
NothingCreated(p) ==
    /\ ~subResult[p].channel
    /\ createTopicCalls[subTopic[p]] = 0
    /\ createSubscriptionCalls[SubscriptionName(p)] = 0
    /\ brokerSubscriptions[SubscriptionName(p)] = NoOne
    /\ activeSubscriptions[SubscriptionName(p)] = NoOne
    /\ recv[p] = "none"
    /\ closerG[p] = "none"

(* C10: a Subscribe call that got past the closed check with the subscription
   missing and DoNotCreateSubscriptionIfMissing set returns an error wrapping
   ErrSubscriptionDoesNotExist (unless the existence check itself failed); with
   creation allowed, the topic missing and DoNotCreateTopicIfMissing set, it
   returns an error wrapping ErrTopicDoesNotExist (unless a check failed). In
   both cases, and whenever such an error is returned, nothing was created at
   the broker, no registry entry is cached and no receive loop was started. *)
C10_NotFoundPolicy ==
    \A p \in Callers :
        (subPc[p] = "done" /\ subTopic[p] # NoOne) =>
            /\ SubscriptionForbidden(p) =>
                  /\ subResult[p].err \in
                        {Wrap(ErrSubscriptionDoesNotExist, "subscription name"),
                         Wrap(BrokerError, "could not check if subscription exists")}
                  /\ NothingCreated(p)
            /\ TopicForbidden(p) =>
                  /\ subResult[p].err \in
                        {Wrap(ErrTopicDoesNotExist, "topic name"),
                         Wrap(BrokerError, "could not check if subscription exists"),
                         Wrap(BrokerError, "could not check if topic exists")}
                  /\ NothingCreated(p)
            /\ subResult[p].err.cause = ErrSubscriptionDoesNotExist.text =>
                  SubscriptionForbidden(p) /\ NothingCreated(p)
            /\ subResult[p].err.cause = ErrTopicDoesNotExist.text =>
                  TopicForbidden(p) /\ NothingCreated(p)

C10_Witness ==
    /\ \E p \in Callers :
          /\ subPc[p] = "done"
          /\ subResult[p] = Returned(FALSE, Wrap(ErrTopicDoesNotExist, "topic name"))
    /\ \E p \in Callers :
          /\ subPc[p] = "done"
          /\ subResult[p].err = Wrap(BrokerError, "could not check if topic exists")

\* the goroutines of the subscriber keep running: a step of theirs that stays
\* possible is taken (the callers, the consumer and the broker are free not to act)
GoroutinesRun ==
    /\ \A p \in Callers :
          /\ WF_vars(CloserCancels(p))
          /\ WF_vars(CloserClosesOutput(p))
          /\ WF_vars(ReceiveReturns(p))
          /\ WF_vars(ReceiveStops(p, "nil"))
    /\ \A m \in Messages :
          /\ WF_vars(HandOffClosing(m))
          /\ WF_vars(OutcomeClosing(m))
          /\ WF_vars(OutcomeAcked(m))
          /\ WF_vars(OutcomeNacked(m))
    /\ \A c \in Closers :
          /\ WF_vars(CloseSetsClosed(c))
          /\ WF_vars(CloseSignals(c))
          /\ WF_vars(CloseWaits(c))
          /\ WF_vars(CloseClosesClient(c))

\* one Subscribe call, one Close call, one native message
NextSmall == NextOf(First(Callers), First(Closers), First(Messages))

SpecFair == Init /\ [][NextSmall]_vars /\ GoroutinesRun

(* C9: when the native receive call of a subscription has ended with an error
   of the broker or the transport, the output channel of that Subscribe call
   is eventually closed, whether or not Close is called. *)
C9_OutputClosedAfterFailure ==
    \A p \in Callers :
        (recv[p] = "finished" /\ recvErr[p] = "err") ~> (output[p] = "closed")

\* Scenario A: the default configuration and a broker that has neither the
\* topic nor the subscription
InitScenarioA ==
    /\ Init
    /\ config = [DoNotCreateSubscriptionIfMissing |-> FALSE,
                 DoNotCreateTopicIfMissing |-> FALSE]
    /\ brokerTopics = {}
    /\ \A n \in Topics : brokerSubscriptions[n] = NoOne

\* several Subscribe calls, one Close call, goroutines that keep running
SpecShutdown ==
    InitScenarioA /\ [][NextOf(Callers, First(Closers), First(Messages))]_vars /\ GoroutinesRun

\* every Subscribe call made so far has returned
NoSubscribeInProgress == \A p \in Callers : subPc[p] \in {"idle", "done"}

\* Close call c has set the closed flag and has not returned
Closing(c) == closePc[c] \in {"signal", "wait", "client"}

(* C11: with goroutines that keep running and a native receive call that
   returns once its context is cancelled and its callbacks have returned, a
   Close call that set the closed flag while no Subscribe call is in progress
   eventually returns, whatever the number of active subscriptions, and also
   when the consumers never receive and never ack or nack. *)
C11_CloseTerminates ==
    \A c \in Closers :
        (Closing(c) /\ NoSubscribeInProgress) ~> (closePc[c] = "returned")

C11_Witness ==
    /\ \E c \in Closers : closePc[c] = "returned"
    /\ \A p \in Callers : subResult[p].channel /\ beforeClose[p] /\ output[p] = "closed"
    /\ \E m \in Messages : nackCause[m] \in {"closing", "closing before hand-off"}
    /\ \A m \in Messages : consumer[m] \in {"none", "pending"}

\* no receive loop is running, and every loop that ran has its output closed
LoopsFinished ==
    \A p \in Callers :
        /\ recv[p] \in {"none", "finished"}
        /\ ActiveCallbacks(p) = {}
        /\ recv[p] = "finished" => output[p] = "closed" /\ closerG[p] = "done"

(* C12: the broker client is closed only in the last step of Close: the step
   that closes it finds the closed flag set, the closing signal broadcast,
   every receive loop finished and its output channel closed, and it is the
   step by which Close returns, with the client's error or nil; when it
   returns the client's error all of that still holds. (Violated: a
   Subscribe call that passed the closed check before Close set the flag
   starts its loop between wg.Wait and client.Close.) *)
C12_ClientClosedLast ==
    [][clientCloseCalls' # clientCloseCalls =>
          /\ closed /\ ClosingFired /\ LoopsFinished
          /\ \E c \in Closers :
                /\ closePc[c] # "returned" /\ closePc'[c] = "returned"
                /\ closeResult'[c] \in {Nil, BrokerError}
          /\ closed' /\ ClosingFired' /\ LoopsFinished']_vars

\* the consumer keeps receiving from the output channels
ConsumerReceives == \A m \in Messages : WF_vars(HandOffSend(m))

\* Scenario A: one Subscribe call on a broker that has neither the topic nor
\* the subscription, goroutines that keep running, a consumer that receives
SpecScenarioA ==
    /\ InitScenarioA
    /\ [][NextOf(First(Callers), First(Closers), Messages)]_vars
    /\ GoroutinesRun
    /\ ConsumerReceives

\* Subscribe call p returned a channel
Subscribed(p) == subPc[p] = "done" /\ subResult[p] = Returned(TRUE, Nil)

(* C13: in Scenario A a Subscribe(t) that returns a channel has created topic
   t and one subscription named t bound to t, has cached the subscription
   under t, and the channel is open unless Close was called; every message
   delivered on the subscription that unmarshals is eventually placed on the
   channel, provided the consumer keeps receiving and Close is not called. *)
C13_ScenarioA ==
    /\ [](\A p \in Callers :
            Subscribed(p) =>
                /\ subTopic[p] \in brokerTopics
                /\ createTopicCalls[subTopic[p]] = 1
                /\ brokerSubscriptions[DefaultSubscriptionName(subTopic[p])] = subTopic[p]
                /\ createSubscriptionCalls[DefaultSubscriptionName(subTopic[p])] = 1
                /\ activeSubscriptions[DefaultSubscriptionName(subTopic[p])] = subHandle[p]
                /\ subHandle[p] # NoOne
                /\ CloseCalled \/ output[p] = "open")
    /\ \A m \in Messages : (cb[m] = "handOff") ~> (Placed(m) \/ CloseCalled)

C13_Witness ==
    /\ \E p \in Callers : Subscribed(p) /\ output[p] = "open" /\ Len(outputLog[p]) = NumMessages
    /\ \A m \in Messages : Placed(m)
    /\ ~CloseCalled

\* the step in which caller p, holding the exclusive lock, queries the broker
\* for the subscription (line 224)
QueriesBroker(p) == subPc[p] = "subExists" /\ subPc'[p] # "subExists"

(* C14: a caller that holds the exclusive lock queries the broker only when
   the name is still missing from the registry, and a registry entry that has
   been set is never replaced, so that all successful resolutions of a name
   return the handle in the registry. (Violated: the slow path has no second
   lookup; the caller that waited for the lock asks the broker again and its
   deferred function overwrites the entry with its own handle.) *)
C14_DoubleCheckedLookup ==
    [][/\ \A p \in Callers :
             QueriesBroker(p) => activeSubscriptions[SubscriptionName(p)] = NoOne
       /\ \A n \in Topics :
             activeSubscriptions[n] # NoOne => activeSubscriptions'[n] = activeSubscriptions[n]
       /\ \A p, q \in Callers :
             Subscribed(p)' /\ Subscribed(q)' /\ subTopic'[p] = subTopic'[q]
                 => subHandle'[p] = subHandle'[q]]_vars

\* Subscribe call p returned the error of a failed broker operation
ResolutionFailed(p) == subPc[p] = "done" /\ subResult[p].err.cause = BrokerError.text

(* C15: no Subscribe call crashes on a failed broker operation, and one that
   returned the error of a failed broker operation returned no channel, holds
   no registry lock, started no goroutine and did not touch the wait group.
   (Violated: when CreateSubscription fails, line 257 assigns to a field of
   the nil subscription before the error is returned.) *)
C15_ResolutionFailureIsReturned ==
    \A p \in Callers :
        /\ subPc[p] # "panicked"
        /\ panicked # "nil pointer dereference"
        /\ ResolutionFailed(p) =>
              /\ ~subResult[p].channel
              /\ activeSubscriptionsLock # p
              /\ recv[p] = "none" /\ closerG[p] = "none"

\* message m did not unmarshal
Unreadable(m) == nackCause[m] = "unmarshal"

(* C16: the step in which a native message fails to unmarshal sends one Nack
   for it and leaves the loop, its context and the output channel as they
   were; such a message has exactly one Nack and no Ack, its callback has
   returned, and it is never placed on the output channel or seen by the
   consumer. Messages delivered afterwards go through the same callback (the
   witness has a later message placed on the channel). *)
C16_UnmarshalFailureIsNacked ==
    [][\A m \in Messages :
          /\ Unreadable(m)' /\ ~Unreadable(m) =>
                /\ brokerNacks'[m] = brokerNacks[m] + 1
                /\ UNCHANGED <<recv, recvErr, loopErr, ctxCancelled, output, outputLog, closerG>>
          /\ Unreadable(m)' =>
                /\ brokerNacks'[m] = 1 /\ brokerAcks'[m] = 0
                /\ cb'[m] = "done" /\ consumer'[m] = "none"
                /\ ~Placed(m)']_vars

C16_Witness ==
    \E a, b \in Messages :
        /\ a < b
        /\ Unreadable(a) /\ brokerNacks[a] = 1 /\ ~Placed(a)
        /\ Placed(b) /\ msgOwner[a] = msgOwner[b]
        /\ outputLog[msgOwner[b]] = <<b>>

\* the step in which the callback of m relays the outcome to the broker
RelaysOutcome(m) == cb[m] = "outcome" /\ cb'[m] = "done"

(* C17, as claimed: closing wins the tie-break, no message is positively
   acknowledged to the broker by a choice made after the closing signal fired. *)
C17_ClosingWins ==
    [][\A m \in Messages : ClosingFired => brokerAcks'[m] = brokerAcks[m]]_vars

(* C17, as the code has it: once the closing signal has fired, the loop relays
   a Nack for a delivered message the consumer has not decided; when the
   consumer's Ack is ready too, the select has no priority and the loop relays
   either a Nack or that Ack. An Ack is relayed after the closing signal only
   for a message the consumer has acked. *)
C17_ClosingOrReadyAck ==
    [][\A m \in Messages :
          (ClosingFired /\ RelaysOutcome(m)) =>
              \/ /\ brokerNacks'[m] = brokerNacks[m] + 1
                 /\ brokerAcks'[m] = brokerAcks[m]
                 /\ consumer[m] = "pending" => nackCause'[m] = "closing"
              \/ /\ consumer[m] = "acked"
                 /\ brokerAcks'[m] = brokerAcks[m] + 1
                 /\ brokerNacks'[m] = brokerNacks[m]]_vars

C17_Witness ==
    \E m \in Messages :
        /\ ClosingFired
        /\ consumer[m] = "acked"
        /\ cb[m] = "done"
        /\ nackCause[m] = "closing" /\ brokerNacks[m] = 1 /\ brokerAcks[m] = 0

\* the broker handed a to the loop before b (messages are handed out in the
\* order of their numbers, see Deliver)
DeliveredBefore(a, b) == msgOwner[a] # NoOne /\ msgOwner[a] = msgOwner[b] /\ a < b

(* C18: on the output channel of a subscription the messages appear in the
   order in which the broker delivered them to its loop. (Violated: sub.Receive
   runs the callbacks of several messages at once, and the callbacks send on
   the channel in whatever order the consumer's receives pair with them.) *)
C18_DeliveryOrderKept ==
    \A p \in Callers :
        \A i, j \in 1..Len(outputLog[p]) :
            DeliveredBefore(outputLog[p][i], outputLog[p][j]) => i < j

(* C19: whatever the interleaving of the Close calls, the closing channel is
   closed once (no close of a closed channel), the broker client is closed at
   most once, and no Close call is left unable to return by a crash.
   (Violated: two Close calls can both read closed = false at line 144.) *)
C19_ConcurrentCloseOnce ==
    /\ panicked # "close of closed channel"
    /\ clientCloseCalls <= 1
    /\ \A c \in Closers : closePc[c] \in {"idle", "returned", "returnedEarly"} \/ Running

\* the receive loop of p is receiving from the broker client
UsesClient(p) == recv[p] \in {"running", "draining"}

(* C20: a Subscribe call that overlaps a Close call either returns
   ErrSubscriberClosed or has its loop in the wait group before Close waits:
   in every state after Close has returned no receive loop is running on the
   closed client and every channel a Subscribe call returned is closed.
   (Violated: the closed check of line 98 and wg.Add of line 121 are not
   synchronised with Close.) *)
C20_SubscribeRacingClose ==
    ShutdownReturned =>
        \A p \in Callers :
            /\ ~UsesClient(p)
            /\ Subscribed(p) => (recv[p] = "finished" /\ output[p] = "closed")

====
